---- MODULE Spec2Model ----
(***************************************************************************)
(* Model of the ProjectsPoC front end: the root view (App), the entry      *)
(* script that mounts it (main entry, App.tsx lines 61-75) and the test    *)
(* suite that renders it (describe('App'), lines 39-59).                   *)
(*                                                                         *)
(* The host document is a head (a sequence of elements) and a body (a      *)
(* sequence of elements, each with an id and child nodes).  A node is a    *)
(* record with a tag; text nodes have the tag "#text".                     *)
(***************************************************************************)
EXTENDS Integers, Sequences, FiniteSets, TLC

VARIABLES body, head, pc, stylesDefined, container, root, error,
          providerTheme, styleCache, calls, commits, renders, found,
          body0, head0

\* body, head      the host document: the elements of document.body and of
\*                 document.head
\* pc              the position of the entry script ("import", "lookup",
\*                 "check", "createRoot", "render", "scheduled", "done",
\*                 "threw"), or "test" while the test suite runs
\* stylesDefined   makeStyles has run (line 3)
\* container, root the constants of lines 65 and 70
\* error           the message of the error the script threw, or Null
\* providerTheme   the theme prop of the FluentProvider handed to root.render
\* styleCache      the rules the style renderer has inserted so far
\* calls, commits, renders   history: the calls the script made, the number
\*                 of commits to the document, the trees rendered
\* found           the number of matches of the last screen.getByText
\* body0, head0    history: the host document before anything ran
vars == <<body, head, pc, stylesDefined, container, root, error,
          providerTheme, styleCache, calls, commits, renders, found,
          body0, head0>>

(* ---------------------------- bounds ----------------------------------- *)

\* largest number of elements the host document's body starts with
MaxElems == 2

\* largest number of renders the test suite performs in one run
MaxRenders == 3

(* ---------------------------- values ----------------------------------- *)

Null == "null"

\* the null reference; a reference to the i-th element of the body is <<i>>
NullRef == <<>>

Ref(i) == <<i>>

NoRoot == [container |-> NullRef, element |-> Null]

RootId == "root"

\* ids an element of the host document may carry ("" is an element without id)
ElemIds == {"root", "app", ""}

NotFoundMessage == "Root element not found"

InvalidContainerMessage == "Target container is not a DOM element."

Title == "Welcome to Projects PoC"

Subtitle == "A React application with Fluent UI components"

Themes == {"webLightTheme", "webDarkTheme", "teamsLightTheme", "teamsDarkTheme"}

webLightTheme == "webLightTheme"

(* ---------------------------- nodes ------------------------------------ *)

TextNode(s) == [tag |-> "#text", text |-> s]

HostElement(id, children) == [tag |-> "div", id |-> id, children |-> children]

RECURSIVE Flatten(_)
Flatten(ss) == IF ss = <<>> THEN <<>> ELSE Head(ss) \o Flatten(Tail(ss))

\* the text nodes below a node, in document order
RECURSIVE TextContent(_)
TextContent(node) ==
    IF node.tag = "#text" THEN <<node.text>>
    ELSE Flatten([i \in 1..Len(node.children) |-> TextContent(node.children[i])])

TextContentOf(nodes) == Flatten([i \in 1..Len(nodes) |-> TextContent(nodes[i])])

Count(s, seq) == Cardinality({i \in 1..Len(seq) : seq[i] = s})

(* ---------------------------- App.tsx 1-33 ----------------------------- *)

\* the design tokens are references to CSS variables the provider defines
tokens ==
    [colorNeutralBackground1 |-> "var(--colorNeutralBackground1)",
     spacingVerticalXXL      |-> "var(--spacingVerticalXXL)",
     spacingVerticalL        |-> "var(--spacingVerticalL)"]

\* the argument of makeStyles: each slot is a set of declarations
StyleDefs ==
    [container |-> {<<"display", "flex">>,
                    <<"flexDirection", "column">>,
                    <<"alignItems", "center">>,
                    <<"justifyContent", "center">>,
                    <<"minHeight", "100vh">>,
                    <<"backgroundColor", tokens.colorNeutralBackground1>>,
                    <<"padding", tokens.spacingVerticalXXL>>},
     title     |-> {<<"marginBottom", tokens.spacingVerticalL>>}]

AllRules == StyleDefs.container \cup StyleDefs.title

useStylesCacheDependent(cache) ==
    [container |-> IF cache = {} THEN StyleDefs.container ELSE {},
     title     |-> StyleDefs.title]

\* useStyles(): the classes of each slot; an atomic class stands for one
\* declaration, so a slot's class list is its set of declarations.  The
\* argument is the renderer's insertion cache the hook reads.
useStyles(cache) ==
    [container |-> StyleDefs.container, title |-> StyleDefs.title]

\* a line of JSX text: its leading white space, its text, its trailing space
JsxLine(indent, text) == [indent |-> indent, text |-> text]

RECURSIVE JoinLines(_)
JoinLines(ls) ==
    IF ls = <<>> THEN ""
    ELSE IF Len(ls) = 1 THEN ls[1].text
    ELSE ls[1].text \o " " \o JoinLines(Tail(ls))

NonBlank(l) == l.text # ""

\* JSX trims each line of a text child, drops the blank lines and joins
\* the rest with one space
JsxText(ls) == JoinLines(SelectSeq(ls, NonBlank))

TitleLines == <<JsxLine(0, ""), JsxLine(8, Title), JsxLine(6, "")>>

SubtitleLines == <<JsxLine(0, ""), JsxLine(8, Subtitle), JsxLine(6, "")>>

\* <Text size weight className>children</Text> renders a span
Text(size, weight, className, children) ==
    [tag |-> "span", size |-> size, weight |-> weight,
     className |-> className, children |-> children]

AppTwoTitles(cache) ==
    LET styles == useStyles(cache) IN
    [tag |-> "div", className |-> styles.container,
     children |-> << Text(900, "bold", styles.title, <<TextNode(JsxText(TitleLines))>>),
                     Text(400, "regular", {}, <<TextNode(JsxText(TitleLines))>>) >>]

App(cache) ==
    LET styles == useStyles(cache) IN
    [tag |-> "div", className |-> styles.container,
     children |-> << Text(900, "bold", styles.title, <<TextNode(JsxText(TitleLines))>>),
                     Text(400, "regular", {}, <<TextNode(JsxText(SubtitleLines))>>) >>]

\* <FluentProvider theme={T}>children</FluentProvider> renders a div that
\* carries the theme's variables
FluentProvider(theme, children) ==
    [tag |-> "div", className |-> "fui-FluentProvider", theme |-> theme,
     children |-> children]

(* ---------------------------- host document --------------------------- *)

\* what an element of the host page may hold before the script runs
HostContents == {<<>>, <<TextNode("Loading...")>>}

HostElements == {HostElement(id, c) : id \in ElemIds, c \in HostContents}

HostBodies == UNION {[1..n -> HostElements] : n \in 0..MaxElems}

HostHeads == {<<>>, <<[tag |-> "title", children |-> <<TextNode("Projects PoC")>>]>>}

getElementByIdFirstElement(elems, id) ==
    IF elems = <<>> THEN NullRef ELSE Ref(1)

\* document.getElementById: the first element, in document order, with the
\* id, or null.  An element is referred to by its position in the body.
getElementById(elems, id) ==
    IF \E i \in 1..Len(elems) : elems[i].id = id
    THEN Ref(CHOOSE i \in 1..Len(elems) :
                /\ elems[i].id = id
                /\ \A j \in 1..(i - 1) : elems[j].id # id)
    ELSE NullRef

IsFalsyNever(c) == FALSE

\* `!container`
IsFalsy(c) == c = NullRef

(* ---------------------------- rendering framework ---------------------- *)

isValidContainerNever(c) == FALSE

\* createRoot accepts only a DOM element
isValidContainer(c) == c # NullRef

CommitRootKeepsChildren(elems, ref, tree) ==
    [elems EXCEPT ![ref[1]].children = @ \o <<tree>>]

CommitRootReplacesBody(elems, ref, tree) ==
    <<[elems[ref[1]] EXCEPT !.children = <<tree>>]>>

\* the first commit of a root clears what the container held and inserts the
\* rendered tree
CommitRoot(elems, ref, tree) == [elems EXCEPT ![ref[1]].children = <<tree>>]

ProviderStyle(theme) ==
    [tag |-> "style", id |-> "fui-FluentProvider", theme |-> theme, rules |-> {}]

MakeStylesStyle(rules) ==
    [tag |-> "style", id |-> "makeStyles", theme |-> Null, rules |-> rules]

\* the style elements a render adds to the document head: the provider's
\* theme variables, and the makeStyles rules that were not inserted before
InsertStyles(hd, cache, theme) ==
    hd \o <<ProviderStyle(theme)>>
       \o (IF AllRules \subseteq cache THEN <<>>
           ELSE <<MakeStylesStyle(AllRules \ cache)>>)

IsProviderStyle(e) == e.tag = "style" /\ e.id = "fui-FluentProvider"

NotProviderStyle(e) == ~IsProviderStyle(e)

\* the text an element holds in its own text nodes
OwnText(node) ==
    LET texts == SelectSeq(node.children, LAMBDA c : c.tag = "#text")
    IN  IF texts = <<>> THEN Null ELSE JoinLines(texts)

RECURSIVE Sum(_)
Sum(ns) == IF ns = <<>> THEN 0 ELSE Head(ns) + Sum(Tail(ns))

\* the number of elements at or below a node whose own text is `text`
RECURSIVE Matches(_, _)
Matches(node, text) ==
    IF node.tag = "#text" THEN 0
    ELSE (IF OwnText(node) = text THEN 1 ELSE 0)
         + Sum([i \in 1..Len(node.children) |-> Matches(node.children[i], text)])

\* screen.getByText looks below document.body
MatchesIn(elems, text) == Sum([i \in 1..Len(elems) |-> Matches(elems[i], text)])

(* ---------------------------- main entry, lines 61-75 ------------------ *)

Init ==
    /\ body \in HostBodies
    /\ head \in HostHeads
    /\ pc = "import"
    /\ stylesDefined = FALSE
    /\ container = NullRef
    /\ root = NoRoot
    /\ error = Null
    /\ providerTheme = Null
    /\ styleCache = {}
    /\ calls = <<>>
    /\ commits = 0
    /\ renders = <<>>
    /\ found = NullRef
    /\ body0 = body
    /\ head0 = head

MakeStylesEager ==
    /\ pc = "import"
    /\ stylesDefined' = TRUE
    /\ head' = Append(head, MakeStylesStyle(AllRules))
    /\ styleCache' = AllRules
    /\ pc' = "lookup"
    /\ UNCHANGED <<body, container, root, error, providerTheme,
                   calls, commits, renders, found, body0, head0>>

\* importing ./App runs makeStyles (lines 3-16): the hook is built, the
\* rules are inserted only when a component first renders
MakeStyles ==
    /\ pc = "import"
    /\ stylesDefined' = TRUE
    /\ pc' = "lookup"
    /\ UNCHANGED <<body, head, container, root, error, providerTheme,
                   styleCache, calls, commits, renders, found, body0, head0>>

\* line 65
GetElementById ==
    /\ pc = "lookup"
    /\ container' = getElementById(body, RootId)
    /\ calls' = Append(calls, "getElementById")
    /\ pc' = "check"
    /\ UNCHANGED <<body, head, stylesDefined, root, error, providerTheme,
                   styleCache, commits, renders, found, body0, head0>>

\* lines 66-68
CheckContainer ==
    /\ pc = "check"
    /\ IF IsFalsy(container)
       THEN /\ error' = NotFoundMessage
            /\ pc' = "threw"
       ELSE /\ error' = error
            /\ pc' = "createRoot"
    /\ UNCHANGED <<body, head, stylesDefined, container, root, providerTheme,
                   styleCache, calls, commits, renders, found, body0, head0>>

\* line 70
CreateRoot ==
    /\ pc = "createRoot"
    /\ calls' = Append(calls, "createRoot")
    /\ IF isValidContainer(container)
       THEN /\ root' = [container |-> container, element |-> Null]
            /\ error' = error
            /\ pc' = "render"
       ELSE /\ root' = root
            /\ error' = InvalidContainerMessage
            /\ pc' = "threw"
    /\ UNCHANGED <<body, head, stylesDefined, container, providerTheme,
                   styleCache, commits, renders, found, body0, head0>>

RootRenderRepeats ==
    /\ pc = "render"
    /\ calls' = Append(calls, "render")
    /\ providerTheme' = webLightTheme
    /\ root' = [root EXCEPT !.element = "FluentProvider"]
    /\ pc' \in {"render", "scheduled"}
    /\ UNCHANGED <<body, head, stylesDefined, container, error,
                   styleCache, commits, renders, found, body0, head0>>

RootRenderDark ==
    /\ pc = "render"
    /\ calls' = Append(calls, "render")
    /\ providerTheme' = "webDarkTheme"
    /\ root' = [root EXCEPT !.element = "FluentProvider"]
    /\ pc' = "scheduled"
    /\ UNCHANGED <<body, head, stylesDefined, container, error,
                   styleCache, commits, renders, found, body0, head0>>

\* lines 71-75: root.render schedules the element; the script ends here
RootRender ==
    /\ pc = "render"
    /\ calls' = Append(calls, "render")
    /\ providerTheme' = webLightTheme
    /\ root' = [root EXCEPT !.element = "FluentProvider"]
    /\ pc' = "scheduled"
    /\ UNCHANGED <<body, head, stylesDefined, container, error,
                   styleCache, commits, renders, found, body0, head0>>

\* the framework renders the scheduled element (FluentProvider, App and its
\* useStyles call, lines 18-31) and commits it to the document
Commit ==
    /\ pc = "scheduled"
    /\ LET tree == FluentProvider(providerTheme, <<App(styleCache)>>) IN
        /\ body' = CommitRoot(body, root.container, tree)
        /\ renders' = Append(renders, [theme |-> providerTheme, tree |-> tree])
    /\ head' = InsertStyles(head, styleCache, providerTheme)
    /\ styleCache' = styleCache \cup AllRules
    /\ commits' = commits + 1
    /\ pc' = "done"
    /\ UNCHANGED <<stylesDefined, container, root, error, providerTheme,
                   calls, found, body0, head0>>

Next ==
    \/ MakeStyles
    \/ GetElementById
    \/ CheckContainer
    \/ CreateRoot
    \/ RootRender
    \/ Commit

Spec == Init /\ [][Next]_vars

(* ---------------------------- test suite, lines 35-59 ------------------ *)

TestInit ==
    /\ body = <<>>
    /\ head = <<>>
    /\ pc = "test"
    /\ stylesDefined = TRUE
    /\ container = NullRef
    /\ root = NoRoot
    /\ error = Null
    /\ providerTheme = Null
    /\ styleCache = {}
    /\ calls = <<>>
    /\ commits = 0
    /\ renders = <<>>
    /\ found = NullRef
    /\ body0 = body
    /\ head0 = head

\* the body of a test: render(<FluentProvider theme={T}><App /></FluentProvider>)
\* appends a container to document.body and renders into it at once, then
\* screen.getByText(text) counts the elements holding the text
RenderTest(T, text) ==
    /\ pc = "test"
    /\ Len(renders) < MaxRenders
    /\ LET tree == FluentProvider(T, <<App(styleCache)>>)
           withContainer == Append(body, HostElement("", <<>>))
       IN  /\ body' = CommitRoot(withContainer, Ref(Len(withContainer)), tree)
           /\ renders' = Append(renders, [theme |-> T, tree |-> tree])
           /\ found' = <<MatchesIn(body', text)>>
    /\ head' = InsertStyles(head, styleCache, T)
    /\ styleCache' = styleCache \cup AllRules
    /\ commits' = commits + 1
    /\ UNCHANGED <<pc, stylesDefined, container, root, error, providerTheme,
                   calls, body0, head0>>

\* the testing library unmounts the rendered trees after a test: the
\* containers leave the body, the providers remove their style elements
Cleanup ==
    /\ pc = "test"
    /\ body # <<>>
    /\ body' = <<>>
    /\ head' = SelectSeq(head, NotProviderStyle)
    /\ UNCHANGED <<pc, stylesDefined, container, root, error, providerTheme,
                   styleCache, calls, commits, renders, found, body0, head0>>

TestNext ==
    \/ \E T \in Themes, text \in {Title, Subtitle} : RenderTest(T, text)
    \/ Cleanup

SpecView == TestInit /\ [][TestNext]_vars

(* ---------------------------- properties ---------------------------- *)

\* the host document holds an element with the id "root" when the script runs
HasRoot == \E i \in 1..Len(body0) : body0[i].id = RootId

\* the script has passed the check of lines 66-68
Checked == pc \notin {"import", "lookup", "check"}

\* everything outside the mount element is as it was in the body
BodyOutsideUnchanged ==
    /\ Len(body) = Len(body0)
    /\ \A i \in 1..Len(body) : Ref(i) # container => body[i] = body0[i]

\* C1: when the host document has no element with the id "root", the script
\* ends with the error 'Root element not found', and createRoot and render
\* are never invoked in that execution.
FailFast ==
    ~HasRoot =>
        /\ Count("createRoot", calls) = 0
        /\ Count("render", calls) = 0
        /\ commits = 0
        /\ Checked => (pc = "threw" /\ error = NotFoundMessage)

FailFastWitness ==
    /\ ~HasRoot
    /\ body0 # <<>>
    /\ pc = "threw"
    /\ error = NotFoundMessage

\* C2: when the host document has an element with the id "root", the script
\* does not fail, and once the tree is committed the text content under
\* that element is, in order, the title and the subtitle and nothing else.
ScenarioA ==
    HasRoot =>
        /\ pc # "threw"
        /\ error = Null
        /\ pc = "done" =>
            /\ container # NullRef
            /\ body0[container[1]].id = RootId
            /\ TextContentOf(body[container[1]].children) = <<Title, Subtitle>>

ScenarioAWitness ==
    /\ HasRoot
    /\ pc = "done"
    /\ body0[container[1]].children # <<>>
    /\ TextContentOf(body[container[1]].children) = <<Title, Subtitle>>

\* C3: under every theme, each render of App holds the title text exactly
\* once and the subtitle text exactly once.
EachTextOnce ==
    \A i \in 1..Len(renders) :
        /\ renders[i].theme \in Themes
        /\ Count(Title, TextContent(renders[i].tree)) = 1
        /\ Count(Subtitle, TextContent(renders[i].tree)) = 1

EachTextOnceWitness ==
    /\ Len(renders) = MaxRenders
    /\ \E i, j \in 1..Len(renders) :
        /\ renders[i].theme = "teamsDarkTheme"
        /\ renders[j].theme = webLightTheme

\* C4, as stated: a successful run mutates the host document exactly once,
\* only under the mount element, and everything outside that element (the
\* rest of the body and the head) is as it was before the script ran.
SingleSideEffect ==
    pc = "done" =>
        /\ commits = 1
        /\ body[container[1]].children = <<renders[1].tree>>
        /\ BodyOutsideUnchanged
        /\ head = head0

\* C4, amended: a successful run commits the rendered tree exactly once, only
\* under the mount element; the other elements of the body and the elements
\* the head held are unchanged; outside the mount element the run only
\* appends style elements to the head.
SingleSideEffectButStyles ==
    pc = "done" =>
        /\ commits = 1
        /\ body[container[1]].children = <<renders[1].tree>>
        /\ body[container[1]].id = body0[container[1]].id
        /\ BodyOutsideUnchanged
        /\ Len(head) > Len(head0)
        /\ SubSeq(head, 1, Len(head0)) = head0
        /\ \A i \in (Len(head0) + 1)..Len(head) : head[i].tag = "style"

SingleSideEffectWitness ==
    /\ pc = "done"
    /\ Len(body0) > 1
    /\ head0 # <<>>
    /\ Len(head) = Len(head0) + 2

\* C5: when the host document has no element with the id "root", the host
\* document is at every point of the execution what it was before: nothing
\* is rendered and nothing is mutated.
UnchangedOnError ==
    ~HasRoot =>
        /\ body = body0
        /\ head = head0
        /\ renders = <<>>

UnchangedOnErrorWitness ==
    /\ ~HasRoot
    /\ pc = "threw"
    /\ Len(body0) = MaxElems
    /\ head0 # <<>>
    /\ body = body0
    /\ head = head0

\* C6: two renders of App under the same theme give the same tree, whatever
\* the state (the style cache, the document) each render started from.
Determinism ==
    \A i, j \in 1..Len(renders) :
        renders[i].theme = renders[j].theme => renders[i].tree = renders[j].tree

DeterminismWitness ==
    /\ Len(renders) >= 2
    /\ renders[1].theme = renders[2].theme
    /\ renders[1].tree = renders[2].tree
    /\ styleCache # {}

\* C7: the script calls render at most once and the tree is committed at
\* most once; when the mount element is present and the run is complete,
\* exactly once, into one element.
AttachOnce ==
    /\ Count("render", calls) <= 1
    /\ Count("createRoot", calls) <= 1
    /\ commits <= 1
    /\ Len(renders) = commits
    /\ (HasRoot /\ pc \in {"scheduled", "done"}) => Count("render", calls) = 1
    /\ pc = "done" =>
        /\ commits = 1
        /\ Cardinality({i \in 1..Len(body) : body[i].children = <<renders[1].tree>>}) = 1

AttachOnceWitness ==
    /\ pc = "done"
    /\ commits = 1
    /\ Cardinality({i \in 1..Len(body0) : body0[i].id = RootId}) > 1

\* C8: whenever render has been invoked, the lookup has completed and
\* returned an existing element with the id "root"; the calls are made in
\* the order lookup, createRoot, render.
LookupBeforeRender ==
    /\ \E n \in 0..3 : calls = SubSeq(<<"getElementById", "createRoot", "render">>, 1, n)
    /\ Count("render", calls) > 0 =>
        /\ container # NullRef
        /\ container[1] \in 1..Len(body0)
        /\ body0[container[1]].id = RootId
        /\ root.container = container

LookupBeforeRenderWitness ==
    /\ pc = "scheduled"
    /\ calls = <<"getElementById", "createRoot", "render">>
    /\ commits = 0

\* C9: the script raises an error exactly when the mount element is absent,
\* and the only error is 'Root element not found'; with the mount element
\* present neither the script nor the render raises.
OnlyMissingMountTarget ==
    /\ error \in {Null, NotFoundMessage}
    /\ error # Null <=> pc = "threw"
    /\ Checked => (error # Null <=> ~HasRoot)
    /\ pc = "done" => HasRoot

OnlyMissingMountTargetWitness ==
    /\ HasRoot
    /\ pc = "done"
    /\ error = Null
    /\ body0[1].id # RootId

\* C10: the theme handed to the tree is the light theme, and once the mount
\* target is resolved and the theme is chosen no step changes either.
ThemeAndTargetFixed ==
    /\ [](/\ providerTheme \in {Null, webLightTheme}
          /\ pc \in {"scheduled", "done"} => providerTheme = webLightTheme
          /\ pc = "done" => body[container[1]].children[1].theme = webLightTheme)
    /\ [][/\ pc \notin {"import", "lookup"} => container' = container
          /\ providerTheme # Null => providerTheme' = providerTheme]_vars

ThemeAndTargetFixedWitness ==
    /\ pc = "done"
    /\ providerTheme = webLightTheme
    /\ container = Ref(MaxElems)
    /\ body[container[1]].children[1].theme = webLightTheme

====
